---- MODULE Spec2Model ----
(***************************************************************************)
(* A model of game-data-scraper: the fetch primitive with retry/backoff    *)
(* (scrapers/itch_rss_scraper.rs fetch_url), the sequential crawl          *)
(* orchestrator (scrapers/itch_rss_scraper.rs scrape_itch_rss_feed), the   *)
(* concurrent one (scrapers/itch_scraper.rs) with its two buffer_unordered *)
(* stages, and the two extractors (parsers/itch_game_info_parser.rs        *)
(* parse_itch_game_page_data, parsers/itch_parser.rs parse_itch_data).     *)
(***************************************************************************)
EXTENDS Integers, Sequences, FiniteSets, TLC

\* ------------------------------------------------------------------ bounds

\* Largest max_retries of a single fetch_url call: ten retries are what it
\* takes for the delay to reach its cap and be slept.
MaxRetries == 10

\* Largest max_retries, page limit and number of items of a feed page of a
\* crawl.
MaxCrawlRetries == 1
MaxPages == 2
MaxItems == 2

\* Largest page limit and number of items of a feed page when the two
\* buffer_unordered stages are followed by their sizes: more than the buffers
\* hold.
MaxBufPages == 52
MaxBufItems == 52

\* Largest number of rows of the info table of a document handed to an
\* extractor on its own.
MaxRows == 2

\* ------------------------------------------------------- program constants

StatusOK == 200
StatusTooManyRequests == 429
MaxDelay == 300
BufferSize == 50
InitialDelay == 1
InitialRetries == 0

\* Statuses the transport may answer with: success, two statuses that are
\* neither 200 nor an error (204, 304), client errors and a server error.
Statuses == {200, 204, 304, 404, 429, 500}

Min(a, b) == IF a <= b THEN a ELSE b

RECURSIVE Pow2(_)
Pow2(n) == IF n = 0 THEN 1 ELSE 2 * Pow2(n - 1)

\* ------------------------------------------------------- strings and HTML

\* A string is a sequence of one-character strings.
IsSpace(c) == c \in {" ", "\n", "\t"}

RECURSIVE TrimStart(_)
TrimStart(s) ==
    IF s # <<>> /\ IsSpace(Head(s)) THEN TrimStart(Tail(s)) ELSE s

RECURSIVE TrimEnd(_)
TrimEnd(s) ==
    IF s # <<>> /\ IsSpace(s[Len(s)]) THEN TrimEnd(SubSeq(s, 1, Len(s) - 1)) ELSE s

\* str::trim
Trim(s) == TrimEnd(TrimStart(s))

\* Iterator<&str>::collect::<String>(): the pieces joined.
RECURSIVE Collect(_)
Collect(ss) == IF ss = <<>> THEN <<>> ELSE Head(ss) \o Collect(Tail(ss))

\* str::split("\n"): the pieces between newlines, empty ones included.
RECURSIVE SplitLines(_, _)
SplitLines(s, cur) ==
    IF s = <<>> THEN <<cur>>
    ELSE IF Head(s) = "\n" THEN <<cur>> \o SplitLines(Tail(s), <<>>)
    ELSE SplitLines(Tail(s), Append(cur, Head(s)))

RECURSIVE FlatMapSplit(_)
FlatMapSplit(ss) ==
    IF ss = <<>> THEN <<>> ELSE SplitLines(Head(ss), <<>>) \o FlatMapSplit(Tail(ss))

\* `.map(|s| s.trim().to_string())`
TrimAll(ss) == [i \in 1..Len(ss) |-> Trim(ss[i])]

\* An element carrying a `content` attribute (the rating's score and count).
NoElem == [present |-> FALSE, hasAttr |-> FALSE, content |-> ""]
ElemNoAttr == [present |-> TRUE, hasAttr |-> FALSE, content |-> ""]
Elem(c) == [present |-> TRUE, hasAttr |-> TRUE, content |-> c]

\* An anchor: its text nodes and its href attribute, if any.
Anchor(t, h) == [text |-> t, hasHref |-> TRUE, href |-> h]
AnchorNoHref(t) == [text |-> t, hasHref |-> FALSE, href |-> <<>>]

\* A data cell: its text nodes in document order, the rating elements, the
\* anchors and the first abbr element found in it (`abbr` carries the title
\* attribute where the others carry content).
Cell(t, v, c, a) ==
    [text |-> t, value |-> v, count |-> c, anchors |-> a, abbr |-> NoElem]
TextCell(t) == Cell(t, NoElem, NoElem, <<>>)
DateCell(t, ab) == [TextCell(t) EXCEPT !.abbr = ab]

\* A table row matched by the row selector: its number of td cells, the inner
\* HTML of the first and the second cell.
Row(n, l, d) == [tds |-> n, label |-> l, data |-> d]

\* str::parse::<f32>() on the contents the model uses; a score is kept in
\* tenths.
ParseF32(c) ==
    CASE c = "4.5" -> [ok |-> TRUE, val |-> 45]
      [] c = "3.0" -> [ok |-> TRUE, val |-> 30]
      [] c = "120" -> [ok |-> TRUE, val |-> 1200]
      [] c = "7" -> [ok |-> TRUE, val |-> 70]
      [] OTHER -> [ok |-> FALSE, val |-> 0]

\* str::parse::<i32>() on the contents the model uses.
ParseI32(c) ==
    CASE c = "120" -> [ok |-> TRUE, val |-> 120]
      [] c = "7" -> [ok |-> TRUE, val |-> 7]
      [] OTHER -> [ok |-> FALSE, val |-> 0]

\* ItchRating::default()
DefaultRating == [score |-> 0, count |-> 0]

\* MoreInfoTableData::default()
DefaultTableData ==
    [status |-> <<>>, release_date |-> <<>>, platforms |-> <<>>,
     rating |-> DefaultRating, authors |-> <<>>, genres |-> <<>>,
     made_with |-> <<>>, tags |-> <<>>, average_session |-> <<>>,
     languages |-> <<>>, inputs |-> <<>>, links |-> <<>>,
     accessibility |-> <<>>]

ParseOk(d) == [ok |-> TRUE, data |-> d, err |-> "none"]
ParseErr(e) == [ok |-> FALSE, data |-> DefaultTableData, err |-> e]

\* ItchTableData::from_str; "None" stands for Option::None.
FromStr(l) ==
    CASE l = "Status" -> "Status"
      [] l = "Release date" -> "ReleaseDate"
      [] l = "Accessibility" -> "Accessibility"
      [] l = "Platforms" -> "Platforms"
      [] l = "Rating" -> "Rating"
      [] l = "Author" -> "Authors"
      [] l = "Authors" -> "Authors"
      [] l = "Genre" -> "Genres"
      [] l = "Genres" -> "Genres"
      [] l = "Made with" -> "MadeWith"
      [] l = "Tag" -> "Tags"
      [] l = "Tags" -> "Tags"
      [] l = "Average session" -> "AverageSession"
      [] l = "Languages" -> "Languages"
      [] l = "Language" -> "Languages"
      [] l = "Inputs" -> "Inputs"
      [] l = "Links" -> "Links"
      [] OTHER -> "None"

\* `data.text().collect::<String>().trim().to_owned()`
TrimmedText(el) == Trim(Collect(el.text))

KeepPieceNoComma(x) == (\A i \in 1..Len(x) : x[i] # ",") /\ Len(x) > 0

\* `.filter(|s| s != "," && s.len() > 0)`
KeepPiece(x) == x # <<",">> /\ Len(x) > 0

\* parse_anchor_separated_strings
ParseAnchorSeparatedStrings(el) ==
    SelectSeq(TrimAll(FlatMapSplit(el.text)), KeepPiece)

ParseRatingElementCountFirst(el) ==
    IF ~el.count.present \/ ~el.count.hasAttr THEN ParseErr("MissingData")
    ELSE IF ~ParseI32(el.count.content).ok THEN ParseErr("InvalidData")
    ELSE IF ~el.value.present \/ ~el.value.hasAttr THEN ParseErr("MissingData")
    ELSE IF ~ParseF32(el.value.content).ok THEN ParseErr("InvalidData")
    ELSE [ok |-> TRUE, err |-> "none",
          data |-> [score |-> ParseF32(el.value.content).val,
                    count |-> ParseI32(el.count.content).val]]

\* parse_rating_element
ParseRatingElement(el) ==
    IF ~el.value.present \/ ~el.value.hasAttr THEN ParseErr("MissingData")
    ELSE IF ~ParseF32(el.value.content).ok THEN ParseErr("InvalidData")
    ELSE IF ~el.count.present \/ ~el.count.hasAttr THEN ParseErr("MissingData")
    ELSE IF ~ParseI32(el.count.content).ok THEN ParseErr("InvalidData")
    ELSE [ok |-> TRUE, err |-> "none",
          data |-> [score |-> ParseF32(el.value.content).val,
                    count |-> ParseI32(el.count.content).val]]

RECURSIVE ParseLinksFrom(_, _)
ParseLinksFrom(as, links) ==
    IF as = <<>> THEN [ok |-> TRUE, err |-> "none", data |-> links]
    ELSE IF Head(as).hasHref
    THEN ParseLinksFrom(Tail(as),
            Append(links, [name |-> Collect(Head(as).text), url |-> Head(as).href]))
    ELSE [ok |-> FALSE, err |-> "MissingData", data |-> <<>>]

ParseLinksSkipping(el) ==
    LET HasHref(a) == a.hasHref
        kept == SelectSeq(el.anchors, HasHref)
    IN [ok |-> TRUE, err |-> "none",
        data |-> [i \in 1..Len(kept) |->
                    [name |-> Collect(kept[i].text), url |-> kept[i].href]]]

\* parse_links
ParseLinks(el) == ParseLinksFrom(el.anchors, <<>>)

\* The `match data_type` of parse_itch_game_page_data on one two-cell row whose
\* label is recognised: the record with the row's field set, or the error.
ParseRowData(itch_data, data_type, data) ==
    CASE data_type = "ReleaseDate" ->
            ParseOk([itch_data EXCEPT !.release_date = TrimmedText(data)])
      [] data_type = "Status" ->
            ParseOk([itch_data EXCEPT !.status = TrimmedText(data)])
      [] data_type = "Accessibility" ->
            ParseOk([itch_data EXCEPT !.accessibility = ParseAnchorSeparatedStrings(data)])
      [] data_type = "Platforms" ->
            ParseOk([itch_data EXCEPT !.platforms = ParseAnchorSeparatedStrings(data)])
      [] data_type = "Rating" ->
            IF ParseRatingElement(data).ok
            THEN ParseOk([itch_data EXCEPT !.rating = ParseRatingElement(data).data])
            ELSE ParseErr(ParseRatingElement(data).err)
      [] data_type = "Authors" ->
            ParseOk([itch_data EXCEPT !.authors = ParseAnchorSeparatedStrings(data)])
      [] data_type = "Genres" ->
            ParseOk([itch_data EXCEPT !.genres = ParseAnchorSeparatedStrings(data)])
      [] data_type = "MadeWith" ->
            ParseOk([itch_data EXCEPT !.made_with = ParseAnchorSeparatedStrings(data)])
      [] data_type = "Tags" ->
            ParseOk([itch_data EXCEPT !.tags = ParseAnchorSeparatedStrings(data)])
      [] data_type = "AverageSession" ->
            ParseOk([itch_data EXCEPT !.average_session = TrimmedText(data)])
      [] data_type = "Languages" ->
            ParseOk([itch_data EXCEPT !.languages = ParseAnchorSeparatedStrings(data)])
      [] data_type = "Inputs" ->
            ParseOk([itch_data EXCEPT !.inputs = ParseAnchorSeparatedStrings(data)])
      [] data_type = "Links" ->
            IF ParseLinks(data).ok
            THEN ParseOk([itch_data EXCEPT !.links = ParseLinks(data).data])
            ELSE ParseErr(ParseLinks(data).err)

\* The `for tr in document.select(&tr_selector)` loop of
\* parse_itch_game_page_data.
RECURSIVE ParseRows(_, _)
ParseRows(rows, itch_data) ==
    IF rows = <<>> THEN ParseOk(itch_data)
    ELSE IF Head(rows).tds # 2 THEN ParseErr("MissingElements")
    ELSE IF FromStr(Head(rows).label) = "None" THEN ParseRows(Tail(rows), itch_data)
    ELSE IF ParseRowData(itch_data, FromStr(Head(rows).label), Head(rows).data).ok
    THEN ParseRows(Tail(rows),
            ParseRowData(itch_data, FromStr(Head(rows).label), Head(rows).data).data)
    ELSE ParseRowData(itch_data, FromStr(Head(rows).label), Head(rows).data)

\* parse_itch_game_page_data on a document given by the rows its row selector
\* matches.
ParseItchGamePageData(doc) == ParseRows(doc.rows, DefaultTableData)

ParseRowLabelFirst(itch_data, row) ==
    IF FromStr(row.label) = "None" THEN ParseOk(itch_data)
    ELSE IF row.tds # 2 THEN ParseErr("MissingElements")
    ELSE ParseRowData(itch_data, FromStr(row.label), row.data)

ParseRowFresh(itch_data, row) ==
    IF row.tds # 2 THEN ParseErr("MissingElements")
    ELSE IF FromStr(row.label) = "None" THEN ParseOk(itch_data)
    ELSE ParseRowData(DefaultTableData, FromStr(row.label), row.data)

ParseRowKeepFirst(itch_data, row) ==
    IF row.tds # 2 THEN ParseErr("MissingElements")
    ELSE IF FromStr(row.label) = "None" THEN ParseOk(itch_data)
    ELSE IF ~ParseRowData(DefaultTableData, FromStr(row.label), row.data).ok
    THEN ParseRowData(DefaultTableData, FromStr(row.label), row.data)
    ELSE ParseOk([f \in DOMAIN itch_data |->
            IF itch_data[f] = DefaultTableData[f]
            THEN ParseRowData(DefaultTableData, FromStr(row.label), row.data).data[f]
            ELSE itch_data[f]])

\* One iteration of the `for tr` loop of parse_itch_game_page_data: the record
\* after the row, or the error the function returns with.
ParseRow(itch_data, row) ==
    IF row.tds # 2 THEN ParseErr("MissingElements")
    ELSE IF FromStr(row.label) = "None" THEN ParseOk(itch_data)
    ELSE ParseRowData(itch_data, FromStr(row.label), row.data)

\* ------------------------------------------- parsers/itch_parser.rs

\* DateTime::<Utc>::default(): the epoch.
DefaultDate == [year |-> 1970, month |-> 1, day |-> 1, hour |-> 0, minute |-> 0]

\* NaiveDateTime::parse_from_str(title, "%d %B %Y @ %H:%M UTC") on the titles
\* the model uses: a title in the format, one with a month that does not
\* exist, one in another format.
ParseFromStr(title) ==
    CASE title = "05 March 2023 @ 14:30 UTC" ->
            [ok |-> TRUE,
             val |-> [year |-> 2023, month |-> 3, day |-> 5, hour |-> 14, minute |-> 30]]
      [] title = "1 May 2020 @ 09:05 UTC" ->
            [ok |-> TRUE,
             val |-> [year |-> 2020, month |-> 5, day |-> 1, hour |-> 9, minute |-> 5]]
      [] OTHER -> [ok |-> FALSE, val |-> DefaultDate]

\* ItchData::default() of itch_parser.rs
DefaultItchData ==
    [last_update_date |-> DefaultDate, publish_date |-> DefaultDate,
     status |-> <<>>, platforms |-> <<>>, rating |-> DefaultRating,
     author |-> <<>>, genre |-> <<>>, made_with |-> <<>>, tags |-> <<>>,
     average_session |-> <<>>, languages |-> <<>>, inputs |-> <<>>,
     links |-> <<>>]

\* ItchTableData::from_str of itch_parser.rs
ItchParserFromStr(l) ==
    CASE l = "Updated" -> "UpdatedDate"
      [] l = "Published" -> "PublishDate"
      [] l = "Status" -> "Status"
      [] l = "Platforms" -> "Platforms"
      [] l = "Rating" -> "Rating"
      [] l = "Author" -> "Author"
      [] l = "Genre" -> "Genre"
      [] l = "Made with" -> "MadeWith"
      [] l = "Tags" -> "Tags"
      [] l = "Average session" -> "AverageSession"
      [] l = "Languages" -> "Languages"
      [] l = "Inputs" -> "Inputs"
      [] l = "Links" -> "Links"
      [] OTHER -> "None"

\* parse_date_element
ParseDateElement(el) ==
    IF ~el.abbr.present \/ ~el.abbr.hasAttr
    THEN [ok |-> FALSE, err |-> "MissingData", data |-> DefaultDate]
    ELSE IF ~ParseFromStr(el.abbr.content).ok
    THEN [ok |-> FALSE, err |-> "InvalidData", data |-> DefaultDate]
    ELSE [ok |-> TRUE, err |-> "none", data |-> ParseFromStr(el.abbr.content).val]

\* The `match data_type` of parse_itch_data.
ParseItchRowData(itch_data, data_type, data) ==
    CASE data_type = "UpdatedDate" ->
            IF ParseDateElement(data).ok
            THEN ParseOk([itch_data EXCEPT !.last_update_date = ParseDateElement(data).data])
            ELSE ParseErr(ParseDateElement(data).err)
      [] data_type = "PublishDate" ->
            IF ParseDateElement(data).ok
            THEN ParseOk([itch_data EXCEPT !.publish_date = ParseDateElement(data).data])
            ELSE ParseErr(ParseDateElement(data).err)
      [] data_type = "Status" ->
            ParseOk([itch_data EXCEPT !.status = TrimmedText(data)])
      [] data_type = "Platforms" ->
            ParseOk([itch_data EXCEPT !.platforms = ParseAnchorSeparatedStrings(data)])
      [] data_type = "Rating" ->
            IF ParseRatingElement(data).ok
            THEN ParseOk([itch_data EXCEPT !.rating = ParseRatingElement(data).data])
            ELSE ParseErr(ParseRatingElement(data).err)
      [] data_type = "Author" ->
            ParseOk([itch_data EXCEPT !.author = TrimmedText(data)])
      [] data_type = "Genre" ->
            ParseOk([itch_data EXCEPT !.genre = TrimmedText(data)])
      [] data_type = "MadeWith" ->
            ParseOk([itch_data EXCEPT !.made_with = TrimmedText(data)])
      [] data_type = "Tags" ->
            ParseOk([itch_data EXCEPT !.tags = ParseAnchorSeparatedStrings(data)])
      [] data_type = "AverageSession" ->
            ParseOk([itch_data EXCEPT !.average_session = TrimmedText(data)])
      [] data_type = "Languages" ->
            ParseOk([itch_data EXCEPT !.languages = ParseAnchorSeparatedStrings(data)])
      [] data_type = "Inputs" ->
            ParseOk([itch_data EXCEPT !.inputs = ParseAnchorSeparatedStrings(data)])
      [] data_type = "Links" ->
            IF ParseLinks(data).ok
            THEN ParseOk([itch_data EXCEPT !.links = ParseLinks(data).data])
            ELSE ParseErr(ParseLinks(data).err)

\* One iteration of the `for tr` loop of parse_itch_data:
\* `parse_row_data_type(tds[0])?` returns UnknownDataType for a label that
\* from_str does not know.
ParseItchRow(itch_data, row) ==
    IF row.tds # 2 THEN ParseErr("MissingElements")
    ELSE IF ItchParserFromStr(row.label) = "None" THEN ParseErr("UnknownDataType")
    ELSE ParseItchRowData(itch_data, ItchParserFromStr(row.label), row.data)

\* ------------------------------------------------------------------ values

\* `format!("{}?page={}", url, page)` of the base URL and a page number
PageUrl(n) == [kind |-> "page", n |-> n]
\* The URL an item's link holds.
LinkUrl(n) == [kind |-> "link", n |-> n]

\* Item: the listing item with identifier n as the feed decoder yields it.
Item(n) ==
    [guid |-> <<"guid", n>>, title |-> <<"title", n>>,
     plain_title |-> <<"plainTitle", n>>, link |-> LinkUrl(n),
     price |-> <<"price", n>>, description |-> <<"description", n>>,
     pub_date |-> <<"pubDate", n>>, create_date |-> <<"createDate", n>>,
     update_date |-> <<"updateDate", n>>]

ItemIds == {1, 2}
Items == {Item(n) : n \in ItemIds}

\* A response body: an RSS document with its items, an HTML document with the
\* rows of its info table, or text that is neither.
NoBody == [kind |-> "none", items |-> <<>>, rows |-> <<>>]
Junk == [kind |-> "junk", items |-> <<>>, rows |-> <<>>]
Feed(items) == [kind |-> "rss", items |-> items, rows |-> <<>>]
Html(rows) == [kind |-> "html", items |-> <<>>, rows |-> rows]

\* `quick_xml::de::from_str::<Rss>(&body)`
Decode(body) ==
    IF body.kind = "rss"
    THEN [ok |-> TRUE, items |-> body.items]
    ELSE [ok |-> FALSE, items |-> <<>>]

\* The item lists of the feeds the server may hold: none, one item, two
\* different items, one item twice, and longer lists.
ItemLists ==
    {<<>>, <<Item(1)>>, <<Item(1), Item(2)>>, <<Item(2), Item(2)>>,
     <<Item(2), Item(1), Item(2)>>, <<Item(1), Item(2), Item(2), Item(1)>>}

\* What the server may hold at a feed page URL.
PageBodies == {Junk} \cup {Feed(is) : is \in {l \in ItemLists : Len(l) <= MaxItems}}

DocReleased ==
    Html(<<Row(2, "Status", TextCell(<<<<" ", "R", "e", "l", "\n">>>>)),
           Row(2, "Rating", Cell(<<>>, Elem("4.5"), Elem("120"), <<>>))>>)

DocPlatforms ==
    Html(<<Row(2, "Updated", TextCell(<<<<"x">>>>)),
           Row(2, "Platforms",
               TextCell(<<<<"\n">>, <<"W", "i", "n">>, <<",", " ">>, <<"L", "x">>>>)),
           Row(2, "Links",
               Cell(<<>>, NoElem, NoElem, <<Anchor(<<<<"S">>>>, <<"u">>)>>))>>)

\* A row with three cells: MissingElements.
DocThreeCells ==
    Html(<<Row(2, "Status", TextCell(<<<<"R">>>>)), Row(3, "", TextCell(<<>>))>>)

\* A rating without its count element: MissingData.
DocNoCount == Html(<<Row(2, "Rating", Cell(<<>>, Elem("4.5"), NoElem, <<>>))>>)

\* A rating whose score does not parse: InvalidData.
DocBadScore ==
    Html(<<Row(2, "Rating", Cell(<<>>, Elem("abc"), Elem("120"), <<>>))>>)

\* What the server may hold at an item's link.
Docs == {DocReleased, DocPlatforms, DocThreeCells, DocNoCount, DocBadScore}

CombineSwapped(table_data, rss_data) ==
    [update_date |-> rss_data.create_date,
     create_date |-> rss_data.update_date,
     plain_title |-> rss_data.plain_title,
     link |-> rss_data.link,
     description |-> rss_data.description,
     pub_date |-> rss_data.pub_date,
     price |-> rss_data.price,
     title |-> rss_data.title,
     average_session |-> table_data.average_session,
     platforms |-> table_data.platforms,
     languages |-> table_data.languages,
     made_with |-> table_data.made_with,
     inputs |-> table_data.inputs,
     authors |-> table_data.authors,
     release_date |-> table_data.release_date,
     rating |-> table_data.rating,
     links |-> table_data.links,
     genres |-> table_data.genres,
     status |-> table_data.status,
     tags |-> table_data.tags,
     accessibility |-> table_data.accessibility]

\* combine_itch_rss_and_info_data
CombineItchRssAndInfoData(table_data, rss_data) ==
    [update_date |-> rss_data.update_date,
     create_date |-> rss_data.create_date,
     plain_title |-> rss_data.plain_title,
     link |-> rss_data.link,
     description |-> rss_data.description,
     pub_date |-> rss_data.pub_date,
     price |-> rss_data.price,
     title |-> rss_data.title,
     average_session |-> table_data.average_session,
     platforms |-> table_data.platforms,
     languages |-> table_data.languages,
     made_with |-> table_data.made_with,
     inputs |-> table_data.inputs,
     authors |-> table_data.authors,
     release_date |-> table_data.release_date,
     rating |-> table_data.rating,
     links |-> table_data.links,
     genres |-> table_data.genres,
     status |-> table_data.status,
     tags |-> table_data.tags,
     accessibility |-> table_data.accessibility]

NoErr == [kind |-> "none", status |-> 0, attempt |-> 0]
\* reqwest::Error of kind Status, raised by error_for_status
StatusErr(s, k) == [kind |-> "status", status |-> s, attempt |-> k]
\* reqwest::Error raised by send()
SendErr(k) == [kind |-> "send", status |-> 0, attempt |-> k]
\* reqwest::Error raised by text() while reading the body
BodyErr(k) == [kind |-> "body", status |-> 0, attempt |-> k]

NoRes == [tag |-> "none", body |-> NoBody, err |-> NoErr]
Ok(b) == [tag |-> "ok", body |-> b, err |-> NoErr]
Err(e) == [tag |-> "err", body |-> NoBody, err |-> e]

\* What one attempt was answered with.
NoResp == [kind |-> "none", status |-> 0, readable |-> FALSE, body |-> NoBody]
ErrResp == [kind |-> "err", status |-> 0, readable |-> FALSE, body |-> NoBody]
HttpResp(s, r, b) == [kind |-> "http", status |-> s, readable |-> r, body |-> b]

VARIABLES
    \* the arguments of scrape_itch_rss_feed
    max_retries, page_limit,
    \* what the server holds at each URL fetched so far
    content,
    \* fetch_url: its position and locals
    fpc, url, retries, delay, fres,
    \* what one fetch_url call did: requests sent, delays slept, answers seen
    requests, sleeps, n429, nErr, resp,
    \* scrape_itch_rss_feed: its position, locals and result
    pc, page, rss_url, feed, itch_data_output, crawlRes,
    \* standard error, and the URLs fetch_url was called with
    log, calls,
    \* which scrape_itch_rss_feed runs: "rss" (itch_rss_scraper.rs, the one
    \* main calls) or "itch" (itch_scraper.rs)
    orchestrator,
    \* itch_scraper.rs: the page URLs taken from the iterator, the state of
    \* each page fetch, the items of the page in process_rss_feed and the state
    \* of each item fetch, the fold's accumulator and try_collect's
    c_next, c_page, c_feed, c_item, acc, collected,
    \* one extraction on its own: which extractor runs ("info" for
    \* parse_itch_game_page_data, "data" for parse_itch_data), the document,
    \* the number of rows the `for tr` loop has gone through, the record being
    \* filled and what the extractor returned
    extractor, raw_html, tr, itch_data, extracted,
    \* the two buffer_unordered stages of itch_scraper.rs by their sizes: the
    \* page fetches in progress, the items of the page in process_rss_feed not
    \* yet taken from the item stream, and the item fetches in progress
    in_progress_pages, items_left, in_progress_items,
    \* whether a fetch_url call the crawl made earlier has slept before a retry
    retried

fvars == <<fpc, url, retries, delay, fres, requests, sleeps, n429, nErr, resp>>

svars == <<page, rss_url, feed, itch_data_output>>

kvars == <<c_next, c_page, c_feed, c_item, acc, collected>>

pvars == <<extractor, raw_html, tr, itch_data, extracted>>

bvars == <<in_progress_pages, items_left, in_progress_items>>

cvars == <<max_retries, page_limit, orchestrator, pc, svars, crawlRes, log, calls,
           kvars, pvars, bvars, retried>>

vars == <<fvars, content, cvars>>

Urls == {PageUrl(n) : n \in 0..MaxPages} \cup {LinkUrl(n) : n \in ItemIds}

\* What the server may answer a GET of u with.
Served(u) == IF u.kind = "page" THEN PageBodies ELSE Docs

\* ------------------------------------------------------------- fetch_url

\* Response::error_for_status: an error for 4xx and 5xx, the response otherwise.
IsErrorStatus(s) == s >= 400 /\ s <= 599

ExhaustedOffByOne(r, m) == r > m

\* `retries >= max_retries`
Exhausted(r, m) == r >= m

NextDelayNoCap(d) == d * 2

\* `delay = std::cmp::min(300, delay * 2)`
NextDelay(d) == Min(MaxDelay, d * 2)

BeginFetchCarried(u) ==
    /\ fpc' = "loop"
    /\ url' = u
    /\ fres' = NoRes
    /\ requests' = 0
    /\ sleeps' = <<>>
    /\ n429' = 0
    /\ nErr' = 0
    /\ resp' = NoResp
    /\ retried' = (retried \/ sleeps # <<>>)
    /\ UNCHANGED <<retries, delay>>

\* The entry of fetch_url(client, url, max_retries).
BeginFetch(u) ==
    /\ fpc' = "loop"
    /\ url' = u
    /\ retries' = InitialRetries
    /\ delay' = InitialDelay
    /\ fres' = NoRes
    /\ requests' = 0
    /\ sleeps' = <<>>
    /\ n429' = 0
    /\ nErr' = 0
    /\ resp' = NoResp
    /\ retried' = (retried \/ sleeps # <<>>)

Return(r) ==
    /\ fpc' = "returned"
    /\ fres' = r
    /\ UNCHANGED <<retries, delay, sleeps>>

\* `sleep(Duration::from_secs(delay)).await`
Backoff ==
    /\ fpc' = "sleeping"
    /\ sleeps' = Append(sleeps, delay)
    /\ UNCHANGED <<retries, delay, fres>>

\* `res.error_for_status().unwrap_err()`: unwrap_err panics on Ok.
ReturnStatusError(s) ==
    IF IsErrorStatus(s)
    THEN Return(Err(StatusErr(s, requests)))
    ELSE /\ fpc' = "panicked"
         /\ UNCHANGED <<retries, delay, sleeps, fres>>

ReadTextEmpty(r, b, k) == IF r THEN Ok(NoBody) ELSE Err(BodyErr(k))

\* `Ok(res.text().await?)`: the body once read, or the error of reading it.
ReadText(r, b, k) == IF r THEN Ok(b) ELSE Err(BodyErr(k))

\* `client.get(url).send()`: the request leaves.
Send ==
    /\ fpc = "loop"
    /\ fpc' = "inflight"
    /\ requests' = requests + 1
    /\ UNCHANGED <<url, retries, delay, fres, sleeps, n429, nErr, resp>>
    /\ UNCHANGED <<content, cvars>>

\* `Err(err) =>` arm: send() failed.
RecvSendError ==
    /\ fpc = "inflight"
    /\ resp' = ErrResp
    /\ nErr' = nErr + 1
    /\ IF Exhausted(retries, max_retries)
       THEN Return(Err(SendErr(requests)))
       ELSE Backoff
    /\ UNCHANGED <<url, requests, n429>>
    /\ UNCHANGED <<content, cvars>>

\* `StatusCode::OK => return Ok(res.text().await?)`
Recv200 ==
    /\ fpc = "inflight"
    /\ \E b \in Served(url), r \in BOOLEAN :
          /\ content[url] # NoBody => b = content[url]
          /\ resp' = HttpResp(StatusOK, r, IF r THEN b ELSE NoBody)
          /\ content' = IF r THEN [content EXCEPT ![url] = b] ELSE content
          /\ Return(ReadText(r, b, requests))
    /\ UNCHANGED <<url, requests, n429, nErr>>
    /\ UNCHANGED cvars

\* `StatusCode::TOO_MANY_REQUESTS =>` arm
Recv429 ==
    /\ fpc = "inflight"
    /\ resp' = HttpResp(StatusTooManyRequests, FALSE, NoBody)
    /\ n429' = n429 + 1
    /\ IF Exhausted(retries, max_retries)
       THEN ReturnStatusError(StatusTooManyRequests)
       ELSE Backoff
    /\ UNCHANGED <<url, requests, nErr>>
    /\ UNCHANGED <<content, cvars>>

\* `_ => return Err(res.error_for_status().unwrap_err())`
RecvOther ==
    /\ fpc = "inflight"
    /\ \E s \in Statuses \ {StatusOK, StatusTooManyRequests} :
          /\ resp' = HttpResp(s, FALSE, NoBody)
          /\ ReturnStatusError(s)
    /\ UNCHANGED <<url, requests, n429, nErr>>
    /\ UNCHANGED <<content, cvars>>

\* The sleep ends: `delay = min(300, delay * 2); retries += 1;` and loop.
Wake ==
    /\ fpc = "sleeping"
    /\ delay' = NextDelay(delay)
    /\ retries' = retries + 1
    /\ fpc' = "loop"
    /\ UNCHANGED <<url, fres, requests, sleeps, n429, nErr, resp>>
    /\ UNCHANGED <<content, cvars>>

\* ------------------------------- scrape_itch_rss_feed (itch_rss_scraper.rs)

CrawlNone == [tag |-> "none", data |-> <<>>, err |-> NoErr]
CrawlOk(d) == [tag |-> "ok", data |-> d, err |-> NoErr]
CrawlErr(e) == [tag |-> "err", data |-> <<>>, err |-> e]

\* main: `let itch_data = rt.block_on(scrape_itch_rss_feed(..))?;` then the
\* records are serialised and written once, to the outfile or to stdout: the
\* sequence of collections main writes for the crawl's result.
MainOutput(res) == IF res.tag = "ok" THEN <<res.data>> ELSE <<>>

\* eprintln!("Error parsing RSS xml for URL {:?}: {:?}", rss_url, err)
RssLogEntry(u) == [kind |-> "rss", url |-> u, err |-> "decode"]
\* eprintln!("Error parsing Itch game page {:?}: {:?}", &item.link, err)
ItemLogEntry(u, e) == [kind |-> "item", url |-> u, err |-> e]

PropagateSwallowed ==
    /\ pc' = "loop"
    /\ page' = page + 1
    /\ UNCHANGED <<crawlRes, rss_url, feed, itch_data_output, log>>

PropagatePartial ==
    /\ crawlRes' = CrawlOk(itch_data_output)
    /\ pc' = "done"
    /\ UNCHANGED <<page, rss_url, feed, itch_data_output, log>>

\* The `?` after fetch_url(..).await: the error leaves scrape_itch_rss_feed.
Propagate ==
    /\ crawlRes' = CrawlErr(fres.err)
    /\ pc' = "done"
    /\ UNCHANGED <<page, rss_url, feed, itch_data_output, log>>

SkipPageAborts ==
    /\ crawlRes' = CrawlErr([kind |-> "decode", status |-> 0, attempt |-> 0])
    /\ pc' = "done"
    /\ UNCHANGED <<page, rss_url, feed, itch_data_output, log>>

\* The `Err(err) =>` arm of the match on the decoded feed: the error is
\* printed, then `pb.inc(1)` and the next iteration of the page loop.
SkipPage ==
    /\ log' = Append(log, RssLogEntry(rss_url))
    /\ page' = page + 1
    /\ pc' = "loop"
    /\ UNCHANGED <<rss_url, feed, itch_data_output, crawlRes>>

\* `for page in 1..=page_limit`: the next page is fetched.
FetchPage ==
    /\ pc = "loop"
    /\ page <= page_limit
    /\ rss_url' = PageUrl(page)
    /\ BeginFetch(PageUrl(page))
    /\ calls' = Append(calls, PageUrl(page))
    /\ pc' = "page"
    /\ UNCHANGED <<pvars, bvars, max_retries, page_limit, content, page, feed, itch_data_output,
                   crawlRes, log, orchestrator, kvars>>

\* The page loop is over: `Ok(itch_data_output)`.
FinishCrawl ==
    /\ pc = "loop"
    /\ page > page_limit
    /\ crawlRes' = CrawlOk(itch_data_output)
    /\ pc' = "done"
    /\ UNCHANGED <<retried, pvars, bvars, max_retries, page_limit, content, fvars, page, rss_url, feed,
                   itch_data_output, log, calls, orchestrator, kvars>>

\* fetch_url(&client, &rss_url, max_retries) has returned: `?`, then the
\* `match quick_xml::de::from_str::<Rss>(&rss_string)`.
PageReturned ==
    /\ pc = "page"
    /\ fpc = "returned"
    /\ fpc' = "idle"
    /\ IF fres.tag = "err" THEN Propagate
       ELSE IF Decode(fres.body).ok
       THEN /\ feed' = Decode(fres.body).items
            /\ pc' = "items"
            /\ UNCHANGED <<page, rss_url, itch_data_output, crawlRes, log>>
       ELSE SkipPage
    /\ UNCHANGED <<retried, pvars, bvars, max_retries, page_limit, content, calls, orchestrator, kvars>>
    /\ UNCHANGED <<url, retries, delay, fres, requests, sleeps, n429, nErr, resp>>

\* `for item in feed.channel.items`: the next item's detail page is fetched.
FetchItem ==
    /\ pc = "items"
    /\ feed # <<>>
    /\ BeginFetch(Head(feed).link)
    /\ calls' = Append(calls, Head(feed).link)
    /\ pc' = "item"
    /\ UNCHANGED <<pvars, bvars, max_retries, page_limit, content, page, rss_url, feed,
                   itch_data_output, crawlRes, log, orchestrator, kvars>>

\* The item loop is over: `pb.inc(1)` and the next iteration of the page loop.
EndPage ==
    /\ pc = "items"
    /\ feed = <<>>
    /\ page' = page + 1
    /\ pc' = "loop"
    /\ UNCHANGED <<retried, pvars, bvars, max_retries, page_limit, content, fvars, rss_url, feed,
                   itch_data_output, crawlRes, log, calls, orchestrator, kvars>>

PushItemAlways(out, parsed, item) ==
    Append(out, CombineItchRssAndInfoData(parsed.data, item))

\* What the `match parse_itch_game_page_data(&game_data)` leaves in
\* itch_data_output.
PushItem(out, parsed, item) ==
    IF parsed.ok
    THEN Append(out, CombineItchRssAndInfoData(parsed.data, item))
    ELSE out

\* fetch_url(&client, &item.link, max_retries) has returned: `?`, then the
\* `match parse_itch_game_page_data(&game_data)`.
ItemReturned ==
    /\ pc = "item"
    /\ fpc = "returned"
    /\ fpc' = "idle"
    /\ IF fres.tag = "err" THEN Propagate
       ELSE /\ itch_data_output' =
                  PushItem(itch_data_output, ParseItchGamePageData(fres.body), Head(feed))
            /\ log' = IF ParseItchGamePageData(fres.body).ok THEN log
                      ELSE Append(log, ItemLogEntry(Head(feed).link,
                                         ParseItchGamePageData(fres.body).err))
            /\ feed' = Tail(feed)
            /\ pc' = "items"
            /\ UNCHANGED <<page, rss_url, crawlRes>>
    /\ UNCHANGED <<retried, pvars, bvars, max_retries, page_limit, content, calls, orchestrator, kvars>>
    /\ UNCHANGED <<url, retries, delay, fres, requests, sleeps, n429, nErr, resp>>

\* ----------------------------------- scrape_itch_rss_feed (itch_scraper.rs)

\* itch_scraper.rs imports parse_itch_game_page_data from parsers::itch_parser,
\* which defines no function of that name; the extractor of that name, in
\* parsers::itch_game_info_parser, stands for it.  Its fetch_url sends one
\* request, never looks at the status and returns the body of any response.

\* `(0..page_limit).map(|i| url.clone() + "?page=" + &i.to_string())`
PageUrls(limit) == [i \in 1..limit |-> PageUrl(i - 1)]

InFlight(st) == Cardinality({k \in DOMAIN st : st[k] \in {"send", "text"}})

\* buffer_unordered(n) polled: futures are taken from the stream, in order,
\* and started while fewer than n are in progress.
StartWaiting(st, n) ==
    [k \in DOMAIN st |->
        IF /\ st[k] = "wait"
           /\ Cardinality({j \in 1..k : st[j] = "wait"}) <= n - InFlight(st)
        THEN "send" ELSE st[k]]

Started(old, new) == {k \in DOMAIN old : old[k] = "wait" /\ new[k] = "send"}

\* The links of the items whose fetch the buffer has just started, in order.
StartedLinks(items, old, new) ==
    [j \in 1..Cardinality(Started(old, new)) |->
        items[CHOOSE k \in Started(old, new) :
                 Cardinality({x \in Started(old, new) : x <= k}) = j].link]

RECURSIVE Flatten(_)
\* `data.into_iter().flatten().collect()`
Flatten(vs) == IF vs = <<>> THEN <<>> ELSE Head(vs) \o Flatten(Tail(vs))

\* The page stream still has a URL to start and room in its buffer.
CanFill == c_next < Len(PageUrls(page_limit)) /\ InFlight(c_page) < BufferSize

\* try_collect meets an Err: scrape_itch_rss_feed returns it and the stream,
\* with the fetches in progress, is dropped.
Drop(st, failed) ==
    [k \in DOMAIN st |->
        IF k \in failed THEN "failed"
        ELSE IF st[k] \in {"send", "text"} THEN "dropped" ELSE st[k]]

CFail(e, pages, items) ==
    /\ crawlRes' = CrawlErr(e)
    /\ pc' = "done"
    /\ c_page' = Drop(c_page, pages)
    /\ c_item' = Drop(c_item, items)
    /\ UNCHANGED <<c_next, c_feed, acc, collected, calls, content>>

\* The page stream is polled: `stream::iter(urls).map(fetch_url)
\* .buffer_unordered(50)` starts the page fetches there is room for.
CFill ==
    /\ pc = "poll"
    /\ CanFill
    /\ LET n == Min(BufferSize - InFlight(c_page), Len(PageUrls(page_limit)) - c_next)
       IN /\ c_page' = [k \in DOMAIN c_page |->
                           IF k \in (c_next + 1)..(c_next + n) THEN "send" ELSE c_page[k]]
          /\ c_next' = c_next + n
          /\ calls' = calls \o SubSeq(PageUrls(page_limit), c_next + 1, c_next + n)
    /\ UNCHANGED <<retried, pvars, bvars, max_retries, page_limit, orchestrator, pc, svars, crawlRes, log,
                   c_feed, c_item, acc, collected, content, fvars>>

\* fetch_url of a page: `client.get(url).send().await?` yields a response,
\* whatever its status.
CPageSent ==
    /\ pc = "poll"
    /\ ~CanFill
    /\ \E k \in DOMAIN c_page :
          /\ c_page[k] = "send"
          /\ c_page' = [c_page EXCEPT ![k] = "text"]
    /\ UNCHANGED <<retried, pvars, bvars, max_retries, page_limit, orchestrator, pc, svars, crawlRes, log,
                   calls, c_next, c_feed, c_item, acc, collected, content, fvars>>

\* fetch_url of a page fails in send() or in text(): `Err(err) =>
\* Err(err.into())`, which ends try_collect.
CPageFails ==
    /\ pc = "poll"
    /\ ~CanFill
    /\ \E k \in DOMAIN c_page :
          /\ c_page[k] \in {"send", "text"}
          /\ CFail(IF c_page[k] = "send" THEN SendErr(1) ELSE BodyErr(1), {k}, {})
    /\ UNCHANGED <<retried, pvars, bvars, max_retries, page_limit, orchestrator, svars, log, fvars>>

\* fetch_url of a page returns its body: `Ok(body) =>
\* process_rss_feed(&client, body)` up to its first await.
CPageRead ==
    /\ pc = "poll"
    /\ ~CanFill
    /\ \E k \in {j \in DOMAIN c_page : c_page[j] = "text"} :
       \E b \in Served(PageUrls(page_limit)[k]) :
          /\ c_page[k] = "text"
          /\ content[PageUrls(page_limit)[k]] # NoBody
                => b = content[PageUrls(page_limit)[k]]
          /\ content' = [content EXCEPT ![PageUrls(page_limit)[k]] = b]
          /\ c_page' = [c_page EXCEPT ![k] = "done"]
          /\ IF Decode(b).ok /\ Decode(b).items # <<>>
             THEN LET st == StartWaiting([i \in 1..Len(Decode(b).items) |-> "wait"],
                                         BufferSize)
                  IN /\ c_feed' = Decode(b).items
                     /\ c_item' = st
                     /\ calls' = calls \o
                           StartedLinks(Decode(b).items, [j \in DOMAIN st |-> "wait"], st)
                     /\ acc' = <<>>
                     /\ pc' = "proc"
                     /\ UNCHANGED collected
             ELSE /\ collected' = Append(collected, <<>>)
                  /\ UNCHANGED <<c_feed, c_item, acc, calls, pc>>
    /\ UNCHANGED <<retried, pvars, bvars, max_retries, page_limit, orchestrator, svars, crawlRes, log,
                   c_next, fvars>>

\* get_item_data: fetch_url of an item's link, send() yields a response.
CItemSent ==
    /\ pc = "proc"
    /\ \E i \in DOMAIN c_item :
          /\ c_item[i] = "send"
          /\ c_item' = [c_item EXCEPT ![i] = "text"]
    /\ UNCHANGED <<retried, pvars, bvars, max_retries, page_limit, orchestrator, pc, svars, crawlRes, log,
                   calls, c_next, c_page, c_feed, acc, collected, content, fvars>>

\* get_item_data fails: try_fold ends with the error, `.await?` returns it
\* from process_rss_feed and try_collect ends with it.
CItemFails ==
    /\ pc = "proc"
    /\ \E i \in DOMAIN c_item :
          /\ c_item[i] \in {"send", "text"}
          /\ CFail(IF c_item[i] = "send" THEN SendErr(1) ELSE BodyErr(1), {}, {i})
    /\ UNCHANGED <<retried, pvars, bvars, max_retries, page_limit, orchestrator, svars, log, fvars>>

\* get_item_data returns (data, item): the closure of try_fold runs, the
\* buffer starts the items still waiting, and process_rss_feed returns
\* Ok(output) once the item stream has ended.
CItemRead ==
    /\ pc = "proc"
    /\ \E i \in {j \in DOMAIN c_item : c_item[j] = "text"} :
       \E b \in Served(c_feed[i].link) :
          /\ c_item[i] = "text"
          /\ content[c_feed[i].link] # NoBody => b = content[c_feed[i].link]
          /\ content' = [content EXCEPT ![c_feed[i].link] = b]
          /\ acc' = PushItem(acc, ParseItchGamePageData(b), c_feed[i])
          /\ LET st == StartWaiting([c_item EXCEPT ![i] = "done"], BufferSize)
             IN /\ c_item' = st
                /\ calls' = calls \o
                      StartedLinks(c_feed, [c_item EXCEPT ![i] = "done"], st)
                /\ IF \A j \in DOMAIN st : st[j] = "done"
                   THEN /\ collected' = Append(collected, acc')
                        /\ pc' = "poll"
                   ELSE UNCHANGED <<collected, pc>>
    /\ UNCHANGED <<retried, pvars, bvars, max_retries, page_limit, orchestrator, svars, crawlRes, log,
                   c_next, c_page, c_feed, fvars>>

\* The page stream has ended: `Ok(data) =>
\* Ok(data.into_iter().flatten().collect())`.
CFinish ==
    /\ pc = "poll"
    /\ ~CanFill
    /\ InFlight(c_page) = 0
    /\ crawlRes' = CrawlOk(Flatten(collected))
    /\ pc' = "done"
    /\ UNCHANGED <<retried, pvars, bvars, max_retries, page_limit, orchestrator, svars, log, calls, kvars,
                   content, fvars>>

ConcIdle ==
    /\ c_next = 0
    /\ c_page = [k \in 1..MaxPages |-> "wait"]
    /\ c_feed = <<>>
    /\ c_item = <<>>
    /\ acc = <<>>
    /\ collected = <<>>

\* What `extracted` holds until the extractor returns.
NoExtract == [ok |-> FALSE, data |-> DefaultTableData, err |-> "pending"]

ParseIdle ==
    /\ extractor = "info"
    /\ raw_html = NoBody
    /\ tr = 0
    /\ itch_data = DefaultTableData
    /\ extracted = NoExtract

BufIdle ==
    /\ in_progress_pages = 0
    /\ items_left = 0
    /\ in_progress_items = 0

\* ------------------------------------------- one fetch_url call on its own

FetchUrls == {LinkUrl(1)}

InitFetch ==
    /\ max_retries \in 0..MaxRetries
    /\ page_limit = 0
    /\ content = [u \in Urls |-> NoBody]
    /\ fpc = "loop"
    /\ url \in FetchUrls
    /\ retries = InitialRetries
    /\ delay = InitialDelay
    /\ fres = NoRes
    /\ requests = 0
    /\ sleeps = <<>>
    /\ n429 = 0
    /\ nErr = 0
    /\ resp = NoResp
    /\ pc = "caller"
    /\ page = 1
    /\ rss_url = PageUrl(0)
    /\ feed = <<>>
    /\ itch_data_output = <<>>
    /\ crawlRes = CrawlNone
    /\ log = <<>>
    /\ calls = <<LinkUrl(1)>>
    /\ orchestrator = "rss"
    /\ ConcIdle
    /\ ParseIdle
    /\ BufIdle
    /\ retried = FALSE

NextFetch == Send \/ RecvSendError \/ Recv200 \/ Recv429 \/ RecvOther \/ Wake

SpecFetch == InitFetch /\ [][NextFetch]_vars

\* ---------------------------------------------------- the sequential crawl

Init ==
    /\ orchestrator \in {"rss", "itch"}
    /\ max_retries \in (IF orchestrator = "rss" THEN 0..MaxCrawlRetries ELSE {0})
    /\ page_limit \in 0..MaxPages
    /\ content = [u \in Urls |-> NoBody]
    /\ fpc = "idle"
    /\ url = PageUrl(0)
    /\ retries = InitialRetries
    /\ delay = InitialDelay
    /\ fres = NoRes
    /\ requests = 0
    /\ sleeps = <<>>
    /\ n429 = 0
    /\ nErr = 0
    /\ resp = NoResp
    /\ pc = (IF orchestrator = "rss" THEN "loop" ELSE "poll")
    /\ page = 1
    /\ rss_url = PageUrl(0)
    /\ feed = <<>>
    /\ itch_data_output = <<>>
    /\ crawlRes = CrawlNone
    /\ log = <<>>
    /\ calls = <<>>
    /\ ConcIdle
    /\ ParseIdle
    /\ BufIdle
    /\ retried = FALSE

Next ==
    \/ FetchPage \/ FinishCrawl \/ PageReturned \/ FetchItem \/ EndPage
    \/ ItemReturned
    \/ Send \/ RecvSendError \/ Recv200 \/ Recv429 \/ RecvOther \/ Wake
    \/ CFill \/ CPageSent \/ CPageFails \/ CPageRead
    \/ CItemSent \/ CItemFails \/ CItemRead \/ CFinish

Spec == Init /\ [][Next]_vars

\* ------------------- the buffer_unordered stages of itch_scraper.rs by size

FillCountUnbounded(max, in_progress, remaining) == remaining

\* BufferUnordered::poll_next: `while in_progress_queue.len() < max` a future
\* is taken from the stream and started; the number it starts.
FillCount(max, in_progress, remaining) == Min(max - in_progress, remaining)

InitBuffer ==
    /\ orchestrator = "itch"
    /\ max_retries = 0
    /\ page_limit \in 0..MaxBufPages
    /\ content = [u \in Urls |-> NoBody]
    /\ fpc = "idle"
    /\ url = PageUrl(0)
    /\ retries = InitialRetries
    /\ delay = InitialDelay
    /\ fres = NoRes
    /\ requests = 0
    /\ sleeps = <<>>
    /\ n429 = 0
    /\ nErr = 0
    /\ resp = NoResp
    /\ pc = "poll"
    /\ page = 1
    /\ rss_url = PageUrl(0)
    /\ feed = <<>>
    /\ itch_data_output = <<>>
    /\ crawlRes = CrawlNone
    /\ log = <<>>
    /\ calls = <<>>
    /\ ConcIdle
    /\ ParseIdle
    /\ BufIdle
    /\ retried = FALSE

\* What the actions on the buffer sizes leave alone.
BufferFrame ==
    UNCHANGED <<fvars, content, max_retries, page_limit, orchestrator, svars, log,
                calls, c_page, c_feed, c_item, acc, collected, pvars, retried>>

\* The page stream is polled: buffer_unordered(50) starts the page fetches
\* there is room for.
BFill ==
    /\ pc = "poll"
    /\ FillCount(BufferSize, in_progress_pages, page_limit - c_next) > 0
    /\ in_progress_pages' =
          in_progress_pages + FillCount(BufferSize, in_progress_pages, page_limit - c_next)
    /\ c_next' = c_next + FillCount(BufferSize, in_progress_pages, page_limit - c_next)
    /\ UNCHANGED <<pc, crawlRes, items_left, in_progress_items>>
    /\ BufferFrame

\* A page fetch returns a body with n items (none when it does not decode):
\* process_rss_feed runs up to its first await, its own buffer_unordered(50)
\* having started the item fetches there is room for.
BPageRead ==
    /\ pc = "poll"
    /\ FillCount(BufferSize, in_progress_pages, page_limit - c_next) = 0
    /\ in_progress_pages > 0
    /\ in_progress_pages' = in_progress_pages - 1
    /\ \E n \in 0..MaxBufItems :
          /\ in_progress_items' = FillCount(BufferSize, 0, n)
          /\ items_left' = n - FillCount(BufferSize, 0, n)
          /\ pc' = IF n > 0 THEN "proc" ELSE "poll"
    /\ UNCHANGED <<c_next, crawlRes>>
    /\ BufferFrame

\* A page fetch fails: try_collect ends with the error and the stream, with
\* the fetches in progress, is dropped.
BPageFails ==
    /\ pc = "poll"
    /\ FillCount(BufferSize, in_progress_pages, page_limit - c_next) = 0
    /\ in_progress_pages > 0
    /\ \E e \in {SendErr(1), BodyErr(1)} : crawlRes' = CrawlErr(e)
    /\ pc' = "done"
    /\ in_progress_pages' = 0
    /\ UNCHANGED <<c_next, items_left, in_progress_items>>
    /\ BufferFrame

\* An item fetch returns: the closure of try_fold runs and the item stream is
\* polled again, which starts a waiting item; process_rss_feed returns once
\* the item stream has ended.
BItemRead ==
    /\ pc = "proc"
    /\ in_progress_items > 0
    /\ in_progress_items' =
          in_progress_items - 1 + FillCount(BufferSize, in_progress_items - 1, items_left)
    /\ items_left' =
          items_left - FillCount(BufferSize, in_progress_items - 1, items_left)
    /\ pc' = IF in_progress_items' = 0 THEN "poll" ELSE "proc"
    /\ UNCHANGED <<c_next, crawlRes, in_progress_pages>>
    /\ BufferFrame

\* An item fetch fails: `.await?` returns the error from process_rss_feed,
\* try_collect ends with it and both streams are dropped.
BItemFails ==
    /\ pc = "proc"
    /\ in_progress_items > 0
    /\ \E e \in {SendErr(1), BodyErr(1)} : crawlRes' = CrawlErr(e)
    /\ pc' = "done"
    /\ in_progress_pages' = 0
    /\ in_progress_items' = 0
    /\ items_left' = 0
    /\ UNCHANGED c_next
    /\ BufferFrame

\* The page stream has ended: scrape_itch_rss_feed returns Ok.
BFinish ==
    /\ pc = "poll"
    /\ c_next = page_limit
    /\ in_progress_pages = 0
    /\ crawlRes' = CrawlOk(<<>>)
    /\ pc' = "done"
    /\ UNCHANGED <<c_next, bvars>>
    /\ BufferFrame

NextBuffer == BFill \/ BPageRead \/ BPageFails \/ BItemRead \/ BItemFails \/ BFinish

SpecBuffer == InitBuffer /\ [][NextBuffer]_vars

\* ------------------------------------------------- one extraction on its own

RowStatus == Row(2, "Status", TextCell(<<<<" ", "R", "e", "l", "\n">>>>))
RowRating == Row(2, "Rating", Cell(<<>>, Elem("4.5"), Elem("120"), <<>>))
RowRatingWhole == Row(2, "Rating", Cell(<<>>, Elem("7"), Elem("7"), <<>>))
RowRatingNoCount == Row(2, "Rating", Cell(<<>>, Elem("4.5"), NoElem, <<>>))
RowRatingNoAttr == Row(2, "Rating", Cell(<<>>, ElemNoAttr, Elem("120"), <<>>))
RowRatingBadScore == Row(2, "Rating", Cell(<<>>, Elem("abc"), Elem("120"), <<>>))
RowRatingBadCount == Row(2, "Rating", Cell(<<>>, Elem("3.0"), Elem("4.5"), <<>>))
RowRatingBadScoreNoCount == Row(2, "Rating", Cell(<<>>, Elem("abc"), NoElem, <<>>))
RowRatingNoScoreBadCount == Row(2, "Rating", Cell(<<>>, NoElem, Elem("abc"), <<>>))

\* Text nodes with newlines, commas, blanks and a value that occurs twice.
RowPlatforms ==
    Row(2, "Platforms",
        TextCell(<<<<"\n">>, <<"W", "i", "n">>, <<",", " ">>, <<"L", "x">>,
                   <<"\n", " ", "W", "i", "n", "\t", "\n", ",">>>>))
RowTag == Row(2, "Tag", TextCell(<<<<"a", ",", "\n", "a", " ", "b">>, <<>>, <<",", ",">>>>))
RowAuthors == Row(2, "Authors", TextCell(<<<<"A">>, <<",">>, <<"B">>>>))
RowAuthor == Row(2, "Author", TextCell(<<<<"C">>>>))
RowGenre == Row(2, "Genre", TextCell(<<<<"G">>>>))
RowMadeWith == Row(2, "Made with", TextCell(<<<<" ", "U", "\n", "\n", "V">>>>))
RowLanguages == Row(2, "Languages", TextCell(<<<<"E">>, <<"\n">>, <<"E">>>>))
RowInputs == Row(2, "Inputs", TextCell(<<<<",">>, <<"K">>>>))
RowAccessibility == Row(2, "Accessibility", TextCell(<<>>))
RowAverageSession == Row(2, "Average session", TextCell(<<<<"1">>, <<" ", "h", " ">>>>))
RowLinks ==
    Row(2, "Links",
        Cell(<<>>, NoElem, NoElem,
             <<Anchor(<<<<"S">>>>, <<"u">>), Anchor(<<<<"T">>, <<" ", "w">>>>, <<"v">>),
               Anchor(<<<<"S">>>>, <<"u">>)>>))
RowLinksNone == Row(2, "Links", TextCell(<<<<"x">>>>))
RowLinksNoHref ==
    Row(2, "Links",
        Cell(<<>>, NoElem, NoElem,
             <<Anchor(<<<<"S">>>>, <<"u">>), AnchorNoHref(<<<<"X">>>>),
               Anchor(<<<<"T">>>>, <<"v">>)>>))
RowThreeCells == Row(3, "Status", TextCell(<<<<"R">>>>))
RowOneCell == Row(1, "Category", TextCell(<<>>))
RowUnknown == Row(2, "Category", TextCell(<<<<"x">>>>))
RowReleaseDate == Row(2, "Release date", TextCell(<<<<"s", "o", "o", "n">>>>))
RowReleaseDateBad ==
    Row(2, "Release date", DateCell(<<<<"M", "a", "r">>>>, Elem("2023-03-05")))
RowUpdated ==
    Row(2, "Updated", DateCell(<<<<"M", "a", "r">>>>, Elem("05 March 2023 @ 14:30 UTC")))
RowUpdatedNoAbbr == Row(2, "Updated", TextCell(<<<<"M", "a", "r">>>>))
RowPublished ==
    Row(2, "Published", DateCell(<<<<"M", "a", "y">>>>, Elem("1 May 2020 @ 09:05 UTC")))
RowPublishedBad ==
    Row(2, "Published", DateCell(<<<<"M", "a", "r">>>>, Elem("05 Marz 2023 @ 14:30 UTC")))
RowPublishedNoTitle == Row(2, "Published", DateCell(<<<<"M", "a", "r">>>>, ElemNoAttr))

\* The rows a document's row selector may match.
TableRows ==
    {RowStatus, RowRating, RowRatingWhole, RowRatingNoCount, RowRatingNoAttr,
     RowRatingBadScore, RowRatingBadCount, RowRatingBadScoreNoCount,
     RowRatingNoScoreBadCount, RowPlatforms, RowTag, RowAuthors, RowAuthor,
     RowGenre,
     RowMadeWith, RowLanguages, RowInputs, RowAccessibility, RowAverageSession,
     RowLinks, RowLinksNone,
     RowLinksNoHref, RowThreeCells, RowOneCell, RowUnknown, RowReleaseDate,
     RowReleaseDateBad, RowUpdated, RowUpdatedNoAbbr, RowPublished,
     RowPublishedBad, RowPublishedNoTitle}

\* The documents handed to an extractor: up to MaxRows rows.
Tables == UNION {[1..n -> TableRows] : n \in 0..MaxRows}

InitParse ==
    /\ extractor \in {"info", "data"}
    /\ raw_html \in {Html(rows) : rows \in Tables}
    /\ tr = 0
    /\ itch_data = (IF extractor = "info" THEN DefaultTableData ELSE DefaultItchData)
    /\ extracted = NoExtract
    /\ orchestrator = "rss"
    /\ max_retries = 0
    /\ page_limit = 0
    /\ content = [u \in Urls |-> NoBody]
    /\ fpc = "idle"
    /\ url = PageUrl(0)
    /\ retries = InitialRetries
    /\ delay = InitialDelay
    /\ fres = NoRes
    /\ requests = 0
    /\ sleeps = <<>>
    /\ n429 = 0
    /\ nErr = 0
    /\ resp = NoResp
    /\ pc = "caller"
    /\ page = 1
    /\ rss_url = PageUrl(0)
    /\ feed = <<>>
    /\ itch_data_output = <<>>
    /\ crawlRes = CrawlNone
    /\ log = <<>>
    /\ calls = <<>>
    /\ ConcIdle
    /\ BufIdle
    /\ retried = FALSE

\* The row the `for tr` loop is about to process.
NextRow == raw_html.rows[tr + 1]

\* The loop body of the extractor that runs, on one row.
ExtractorRow(d, row) ==
    IF extractor = "info" THEN ParseRow(d, row) ELSE ParseItchRow(d, row)

\* One iteration of `for tr in document.select(&tr_selector)`: the row sets
\* its field, is skipped, or makes the extractor return an error.
ExtractRow ==
    /\ extracted = NoExtract
    /\ tr < Len(raw_html.rows)
    /\ tr' = tr + 1
    /\ IF ExtractorRow(itch_data, NextRow).ok
       THEN /\ itch_data' = ExtractorRow(itch_data, NextRow).data
            /\ UNCHANGED extracted
       ELSE /\ extracted' = ParseErr(ExtractorRow(itch_data, NextRow).err)
            /\ UNCHANGED itch_data
    /\ UNCHANGED <<extractor, raw_html, fvars, content, max_retries, page_limit,
                   orchestrator, pc, svars, crawlRes, log, calls, kvars, bvars,
                   retried>>

\* The loop is over: `Ok(itch_data)`. (parse_itch_data prints the record and
\* returns Ok around the text it was given.)
ExtractReturn ==
    /\ extracted = NoExtract
    /\ tr = Len(raw_html.rows)
    /\ extracted' = ParseOk(itch_data)
    /\ UNCHANGED <<extractor, raw_html, tr, itch_data, fvars, content, max_retries,
                   page_limit, orchestrator, pc, svars, crawlRes, log, calls, kvars,
                   bvars, retried>>

NextParse == ExtractRow \/ ExtractReturn

SpecParse == InitParse /\ [][NextParse]_vars

\* ------------------------------------------------ properties of fetch_url

FetchEnded == fpc \in {"returned", "panicked"}

\* The error of the last attempt: the 429 status error or the send error.
LastAttemptError ==
    IF resp.kind = "err" THEN SendErr(requests)
    ELSE StatusErr(resp.status, requests)

\* C1: a fetch_url call whose every attempt was answered by HTTP 429 or by a
\* transport error ends having sent exactly max_retries + 1 requests and slept
\* exactly max_retries times, and returns the error of its last attempt.
C1_ExhaustedRetries ==
    /\ requests <= max_retries + 1
    /\ Len(sleeps) <= max_retries
    /\ (FetchEnded /\ n429 + nErr = requests) =>
           /\ fpc = "returned"
           /\ requests = max_retries + 1
           /\ Len(sleeps) = max_retries
           /\ retries = max_retries
           /\ fres = Err(LastAttemptError)

C1_Witness ==
    /\ fpc = "returned"
    /\ n429 + nErr = requests
    /\ n429 >= 2
    /\ nErr >= 2
    /\ resp.kind = "err"

C1_WitnessNoRetry ==
    /\ fpc = "returned"
    /\ max_retries = 0
    /\ requests = 1
    /\ sleeps = <<>>
    /\ fres = Err(StatusErr(StatusTooManyRequests, 1))

C2_DelayInv ==
    /\ delay \in 1..MaxDelay
    /\ \A k \in 1..Len(sleeps) : sleeps[k] = Min(MaxDelay, Pow2(k - 1))
    /\ (fpc = "sleeping" => Len(sleeps) = requests)
    /\ (fpc # "sleeping" => Len(sleeps) = retries)

\* C2: within one fetch_url call the delay slept before attempt k (k >= 1,
\* the first attempt being attempt 0) is min(300, 2^(k-1)) seconds whatever
\* caused the retry, and the delay variable stays in 1..300 and never
\* decreases.
C2_BackoffSchedule == [](C2_DelayInv) /\ [][delay' >= delay]_vars

C2_Witness ==
    /\ Len(sleeps) = 10
    /\ sleeps[9] = 256
    /\ sleeps[10] = MaxDelay
    /\ n429 >= 1
    /\ nErr >= 1
    /\ fpc = "loop"

\* The last attempt was answered by a complete HTTP 200 response and every
\* attempt before it by HTTP 429.
RateLimitedThenOk ==
    /\ resp.kind = "http"
    /\ resp.status = StatusOK
    /\ resp.readable
    /\ n429 = requests - 1

\* C3: when attempts 1..N are answered by HTTP 429 and attempt N+1 by HTTP
\* 200, N <= max_retries, fetch_url returns the body of attempt N+1 after
\* exactly N retries (N+1 requests) and sends no request after it.
C3_SuccessAfterRateLimit ==
    RateLimitedThenOk =>
        /\ fpc = "returned"
        /\ fres = Ok(resp.body)
        /\ n429 <= max_retries
        /\ retries = n429
        /\ Len(sleeps) = n429
        /\ requests = n429 + 1
        /\ ~ENABLED Send

C3_Witness ==
    /\ RateLimitedThenOk
    /\ n429 = 3
    /\ max_retries = 3
    /\ fres = Ok(DocPlatforms)

\* C4: an attempt answered by a non-success status other than 429 makes
\* fetch_url return an error at once, with no sleep and no further request.
C4_TerminalStatus ==
    (resp.kind = "http" /\ resp.status \notin 200..299
        /\ resp.status # StatusTooManyRequests) =>
        /\ fpc = "returned"
        /\ fres.tag = "err"
        /\ Len(sleeps) = retries
        /\ ~ENABLED Send

\* C5: whatever an attempt is answered with, fetch_url ends by returning a
\* body or an error to its caller; it never panics.
C5_NeverPanics == fpc # "panicked"

\* --------------------------------------------------- properties of a crawl

IsPageUrl(u) == u.kind = "page"

\* The feed page URLs fetch_url was called with, in call order.
PageCalls == SelectSeq(calls, IsPageUrl)

RECURSIVE ItemsOfPages(_)
\* The item occurrences of the feed pages that decoded, page after page.
ItemsOfPages(us) ==
    IF us = <<>> THEN <<>>
    ELSE (IF Decode(content[Head(us)]).ok THEN Decode(content[Head(us)]).items
          ELSE <<>>) \o ItemsOfPages(Tail(us))

Extracts(item) == ParseItchGamePageData(content[item.link]).ok

\* The item occurrences whose detail page was extracted.
GoodItems == SelectSeq(ItemsOfPages(PageCalls), Extracts)

HasFeedFields(r, item) ==
    /\ r.title = item.title
    /\ r.plain_title = item.plain_title
    /\ r.link = item.link
    /\ r.price = item.price
    /\ r.description = item.description
    /\ r.pub_date = item.pub_date
    /\ r.create_date = item.create_date
    /\ r.update_date = item.update_date

HasDetailFields(r, d) ==
    /\ r.status = d.status
    /\ r.release_date = d.release_date
    /\ r.platforms = d.platforms
    /\ r.rating = d.rating
    /\ r.authors = d.authors
    /\ r.genres = d.genres
    /\ r.made_with = d.made_with
    /\ r.tags = d.tags
    /\ r.average_session = d.average_session
    /\ r.languages = d.languages
    /\ r.inputs = d.inputs
    /\ r.links = d.links
    /\ r.accessibility = d.accessibility

\* r is the record of item: the item's feed fields and the fields extracted
\* from the page held at the item's link.
IsRecordOf(r, item) ==
    /\ HasFeedFields(r, item)
    /\ HasDetailFields(r, ParseItchGamePageData(content[item.link]).data)

Count(ss, P(_)) == Cardinality({i \in 1..Len(ss) : P(ss[i])})

\* C6: the collection a successful crawl returns holds exactly one record per
\* occurrence of an item in a decoded feed page whose detail page was fetched
\* and extracted, none for any other item, and each record carries the
\* item's feed fields and the fields extracted from that item's own page.
C6_RecordsIffBothSucceeded ==
    crawlRes.tag = "ok" =>
        /\ Len(crawlRes.data) = Len(GoodItems)
        /\ \A r \in {crawlRes.data[i] : i \in 1..Len(crawlRes.data)} :
              \E n \in ItemIds :
                 /\ IsRecordOf(r, Item(n))
                 /\ Extracts(Item(n))
        /\ \A n \in ItemIds :
              LET IsN(it) == it = Item(n)
                  RecN(r) == IsRecordOf(r, Item(n))
              IN Count(crawlRes.data, RecN) = Count(GoodItems, IsN)
        /\ orchestrator = "rss" =>
              \A i \in 1..Len(crawlRes.data) : IsRecordOf(crawlRes.data[i], GoodItems[i])

C6_Witness ==
    /\ crawlRes.tag = "ok"
    /\ orchestrator = "rss"
    /\ Len(crawlRes.data) = 2
    /\ Len(ItemsOfPages(PageCalls)) = 3
    /\ crawlRes.data[1] = crawlRes.data[2]
    /\ Len(log) = 1

C6_WitnessConcurrent ==
    /\ crawlRes.tag = "ok"
    /\ orchestrator = "itch"
    /\ Len(crawlRes.data) = 2
    /\ Len(ItemsOfPages(PageCalls)) = 3

NewlyFailed(old, new) ==
    {k \in DOMAIN new : new[k] = "failed" /\ (k \in DOMAIN old => old[k] # "failed")}

\* C7: a fetch error of a feed page or of a detail page ends the crawl, which
\* returns that error; a crawl that returned takes no further step, and a
\* crawl returns an error only for a fetch error.
C7_FetchErrorsAreFatal ==
    /\ [][(pc \in {"page", "item"} /\ fpc = "returned" /\ fres.tag = "err") =>
            /\ pc' = "done"
            /\ crawlRes' = CrawlErr(fres.err)
            /\ calls' = calls]_vars
    /\ [][(orchestrator = "itch" /\
            NewlyFailed(c_page, c_page') \cup NewlyFailed(c_item, c_item') # {}) =>
            /\ pc' = "done"
            /\ crawlRes'.tag = "err"
            /\ crawlRes'.err.kind \in {"send", "body"}
            /\ calls' = calls]_vars
    /\ [][pc # "done"]_vars
    /\ [](crawlRes.tag = "err" =>
            /\ pc = "done"
            /\ crawlRes.err.kind \in {"send", "body", "status"}
            /\ orchestrator = "rss" => (fres.tag = "err" /\ crawlRes.err = fres.err)
            /\ orchestrator = "itch" =>
                  \E k \in DOMAIN c_page \cup DOMAIN c_item :
                     \/ (k \in DOMAIN c_page /\ c_page[k] = "failed")
                     \/ (k \in DOMAIN c_item /\ c_item[k] = "failed"))

C7_Witness ==
    /\ orchestrator = "rss"
    /\ pc = "done"
    /\ crawlRes = CrawlErr(StatusErr(404, 1))
    /\ url.kind = "link"
    /\ Len(itch_data_output) = 1
    /\ Len(log) = 1

C7_WitnessConcurrent ==
    /\ orchestrator = "itch"
    /\ pc = "done"
    /\ crawlRes.tag = "err"
    /\ \E i \in DOMAIN c_item : c_item[i] = "failed"

\* The body a page fetch of itch_scraper.rs has just returned does not decode.
CDecodeFailed(k) ==
    /\ c_page[k] = "text"
    /\ c_page'[k] = "done"
    /\ ~Decode(content'[PageUrls(page_limit)[k]]).ok

\* C8: a feed page that was fetched but does not decode does not abort the
\* crawl: no detail fetch is made and no record emitted for it, the records
\* gathered so far are kept, and the crawl goes on to fetch the next page
\* number, or finishes successfully after the last page.
C8_DecodeFailureSkipsPage ==
    /\ [][(pc = "page" /\ fpc = "returned" /\ fres.tag = "ok"
              /\ ~Decode(fres.body).ok) =>
            /\ pc' = "loop"
            /\ page' = page + 1
            /\ crawlRes' = CrawlNone
            /\ calls' = calls
            /\ itch_data_output' = itch_data_output]_vars
    /\ [][pc = "loop" =>
            IF page <= page_limit
            THEN pc' = "page" /\ calls' = Append(calls, PageUrl(page))
            ELSE pc' = "done" /\ crawlRes' = CrawlOk(itch_data_output)]_vars
    /\ [][(orchestrator = "itch" /\ \E k \in DOMAIN c_page : CDecodeFailed(k)) =>
            /\ pc' = "poll"
            /\ crawlRes' = CrawlNone
            /\ calls' = calls
            /\ Flatten(collected') = Flatten(collected)
            /\ \A j \in DOMAIN c_page :
                  c_page[j] \in {"send", "text"} /\ ~CDecodeFailed(j)
                      => c_page'[j] = c_page[j]]_vars

C8_Witness ==
    /\ orchestrator = "rss"
    /\ crawlRes.tag = "ok"
    /\ page_limit = 2
    /\ content[PageUrl(1)] = Junk
    /\ calls[1] = PageUrl(1)
    /\ calls[2] = PageUrl(2)
    /\ Len(crawlRes.data) = 2

\* C9: a detail page that was fetched but fails extraction emits no record
\* and does not abort the crawl: the remaining items of the page and the
\* later pages are still processed.
C9_ExtractionFailureSkipsItem ==
    /\ [][(pc = "item" /\ fpc = "returned" /\ fres.tag = "ok"
              /\ ~ParseItchGamePageData(fres.body).ok) =>
            /\ itch_data_output' = itch_data_output
            /\ pc' = "items"
            /\ feed' = Tail(feed)
            /\ page' = page
            /\ crawlRes' = CrawlNone
            /\ calls' = calls]_vars
    /\ [][pc = "items" =>
            IF feed # <<>>
            THEN pc' = "item" /\ calls' = Append(calls, Head(feed).link)
            ELSE pc' = "loop" /\ page' = page + 1 /\ crawlRes' = CrawlNone]_vars
    /\ [][(pc = "proc" /\ \E i \in DOMAIN c_item :
                /\ c_item[i] = "text"
                /\ c_item'[i] = "done"
                /\ ~ParseItchGamePageData(content'[c_feed[i].link]).ok) =>
            /\ acc' = acc
            /\ crawlRes' = CrawlNone
            /\ pc' \in {"proc", "poll"}
            /\ IF pc' = "poll"
               THEN Flatten(collected') = Flatten(collected) \o acc
               ELSE collected' = collected
            /\ \A j \in DOMAIN c_item :
                  c_item[j] \in {"send", "text"} /\ c_item'[j] # "done"
                      => c_item'[j] = c_item[j]]_vars

C9_Witness ==
    /\ orchestrator = "rss"
    /\ crawlRes.tag = "ok"
    /\ page_limit = 2
    /\ Len(log) = 1
    /\ log[1] = ItemLogEntry(LinkUrl(1), "MissingData")
    /\ content[PageUrl(1)] = Feed(<<Item(1)>>)
    /\ content[PageUrl(2)] = Feed(<<Item(2), Item(2)>>)
    /\ Len(crawlRes.data) = 2

\* C10: a crawl with page limit P that meets no fatal fetch error calls
\* fetch for the feed page URLs base?page=n, n in 1..P, each exactly once and
\* for no other feed page URL, whichever orchestrator runs.
C10_PagesOneToLimit ==
    crawlRes.tag = "ok" =>
        /\ {PageCalls[i] : i \in 1..Len(PageCalls)} = {PageUrl(n) : n \in 1..page_limit}
        /\ Len(PageCalls) = page_limit

\* ------------------------------------------------- termination of a crawl

IsLinkUrl(u) == u.kind = "link"

\* The crawl returned Ok after fetching every page of 1..page_limit and the
\* detail page of every item of every page that decoded.
EndedOk ==
    /\ pc = "done"
    /\ crawlRes.tag = "ok"
    /\ {PageCalls[i] : i \in 1..Len(PageCalls)} = {PageUrl(n) : n \in 1..page_limit}
    /\ Len(SelectSeq(calls, IsLinkUrl)) = Len(ItemsOfPages(PageCalls))
    /\ \A i \in 1..Len(ItemsOfPages(PageCalls)) :
          \E j \in 1..Len(calls) : calls[j] = ItemsOfPages(PageCalls)[i].link

\* The crawl returned the error of a fetch.
EndedErr ==
    /\ pc = "done"
    /\ crawlRes.tag = "err"
    /\ crawlRes.err.kind \in {"send", "body", "status"}

\* Every request is answered and every step that can be taken is taken.
FairSpec == Spec /\ WF_vars(Next)

\* Under FairSpec a crawl stops: it returns or fetch_url panics.
EventuallyStops == <>(pc = "done" \/ fpc = "panicked")

\* C12: every crawl terminates, and in one of two ways only: successfully,
\* every page of 1..page_limit fetched and every item of every decoded page
\* handled, or with the error of a fetch; a crawl that takes no further step
\* has ended in one of these two ways.
C12_TerminatesOkOrFetchError == (~ENABLED Next) => (EndedOk \/ EndedErr)

\* --------------------------------------------------------- logging of skips

InLog(e) == \E i \in 1..Len(log) : log[i] = e

\* The URLs fetch_url was called with and whose body was read.
ReadUrls == {calls[i] : i \in 1..Len(calls)} \cap {u \in Urls : content[u] # NoBody}

\* C13: when a crawl has ended, every feed page that was fetched and did not
\* decode and every item whose detail page was fetched and failed extraction
\* has a log entry naming it, whichever orchestrator ran.
C13_SkipsAreLogged ==
    pc = "done" =>
        \A u \in ReadUrls :
            /\ (IsPageUrl(u) /\ ~Decode(content[u]).ok) => InLog(RssLogEntry(u))
            /\ (IsLinkUrl(u) /\ ~ParseItchGamePageData(content[u]).ok) =>
                   InLog(ItemLogEntry(u, ParseItchGamePageData(content[u]).err))

\* ---------------------------------------- properties of the buffer stages

\* C11: at most K = 50 feed-page fetches and at most K = 50 detail-page
\* fetches are in flight at any time, whatever the page limit and the number
\* of items of a page; each stage has its own budget: a stage that is polled
\* with work left fills up to K whatever the other stage holds.
C11_BoundedConcurrency ==
    /\ [](in_progress_pages \in 0..BufferSize /\ in_progress_items \in 0..BufferSize)
    /\ [](items_left > 0 => in_progress_items = BufferSize)
    /\ [][(pc = "poll" /\ pc' = "proc") =>
            in_progress_items' = Min(BufferSize, in_progress_items' + items_left')]_vars
    /\ [][c_next' # c_next =>
            in_progress_pages' = Min(BufferSize, in_progress_pages + page_limit - c_next)]_vars

C11_Witness ==
    /\ in_progress_pages = BufferSize - 1
    /\ in_progress_items = BufferSize
    /\ items_left > 0
    /\ c_next < page_limit

\* ------------------------------------------- properties of the extractors

\* The extractor is about to process a row.
AtRow == extracted = NoExtract /\ tr < Len(raw_html.rows)

\* The extractor has returned an error at the row it processed last.
FailedAtRow == extracted # NoExtract /\ ~extracted.ok /\ tr >= 1

\* C14: a row reached by the extractor whose number of cells is not two makes
\* the extraction return MissingElements and no record, whatever the row's
\* label and whatever the rows before it have set; an extraction that
\* succeeds has met two-cell rows only.
C14_MissingElements ==
    /\ [][(AtRow /\ NextRow.tds # 2) =>
            /\ extracted' = ParseErr("MissingElements")
            /\ PushItem(<<>>, extracted', Item(1)) = <<>>]_vars
    /\ []((extracted # NoExtract /\ extracted.ok) =>
            \A i \in 1..Len(raw_html.rows) : raw_html.rows[i].tds = 2)
    /\ []((FailedAtRow /\ raw_html.rows[tr].tds # 2) =>
            extracted = ParseErr("MissingElements"))

C14_Witness ==
    /\ extractor = "info"
    /\ extracted = ParseErr("MissingElements")
    /\ tr = 2
    /\ raw_html.rows[2] = RowOneCell
    /\ itch_data.rating = [score |-> 45, count |-> 120]

C14_WitnessItchData ==
    /\ extractor = "data"
    /\ extracted = ParseErr("MissingElements")
    /\ tr = 2
    /\ raw_html.rows[2] = RowThreeCells
    /\ itch_data.last_update_date.year = 2023

\* The label of the row is in the label table of the extractor that runs.
Recognised(row) ==
    IF extractor = "info" THEN FromStr(row.label) # "None"
    ELSE ItchParserFromStr(row.label) # "None"

\* C15: a two-cell row whose label the extractor does not recognise never
\* fails the extraction: the extractor goes on to the next row with the
\* record as it was, as if the row were absent, in parse_itch_game_page_data
\* and in parse_itch_data alike.
C15_UnrecognisedLabelSkipped ==
    /\ [][(AtRow /\ NextRow.tds = 2 /\ ~Recognised(NextRow)) =>
            /\ extracted' = NoExtract
            /\ itch_data' = itch_data
            /\ tr' = tr + 1]_vars
    /\ [](extracted.err # "UnknownDataType")

\* The field of the detail record a label stands for, "none" for a label
\* that stands for no field.
LabelField(l) ==
    CASE l = "Status" -> "status"
      [] l = "Release date" -> "release_date"
      [] l = "Platforms" -> "platforms"
      [] l = "Rating" -> "rating"
      [] l \in {"Author", "Authors"} -> "authors"
      [] l \in {"Genre", "Genres"} -> "genres"
      [] l = "Made with" -> "made_with"
      [] l \in {"Tag", "Tags"} -> "tags"
      [] l = "Average session" -> "average_session"
      [] l \in {"Language", "Languages"} -> "languages"
      [] l = "Inputs" -> "inputs"
      [] l = "Links" -> "links"
      [] l = "Accessibility" -> "accessibility"
      [] OTHER -> "none"

Fields == DOMAIN DefaultTableData

\* The rows of the document that stand for field f.
RowsOf(f) == {i \in 1..Len(raw_html.rows) : LabelField(raw_html.rows[i].label) = f}

\* C16: in parse_itch_game_page_data, processing a two-cell row changes no
\* field but the one its label stands for (none for an unrecognised label);
\* after a successful extraction a field no row stands for holds its default,
\* and a document without rows extracts to the all-default record.
C16_RowSetsOnlyItsField ==
    /\ [][(extractor = "info" /\ AtRow /\ NextRow.tds = 2) =>
            \A f \in Fields \ {LabelField(NextRow.label)} : itch_data'[f] = itch_data[f]]_vars
    /\ []((extractor = "info" /\ extracted # NoExtract /\ extracted.ok) =>
            /\ DOMAIN extracted.data = Fields
            /\ \A f \in Fields : RowsOf(f) = {} => extracted.data[f] = DefaultTableData[f]
            /\ raw_html.rows = <<>> => extracted = ParseOk(DefaultTableData))
    /\ []((\A f \in Fields \ {"rating"} : DefaultTableData[f] = <<>>)
            /\ DefaultTableData.rating = [score |-> 0, count |-> 0])

C16_Witness ==
    /\ extractor = "info"
    /\ extracted # NoExtract
    /\ extracted.ok
    /\ raw_html.rows = <<RowTag, RowRating>>
    /\ extracted.data.tags # <<>>
    /\ extracted.data.rating = [score |-> 45, count |-> 120]
    /\ extracted.data.status = <<>>
    /\ extracted.data.links = <<>>

C16_WitnessNoRows ==
    /\ extractor = "info"
    /\ raw_html.rows = <<>>
    /\ extracted = ParseOk(DefaultTableData)

\* The checks of the rating cell el, in the order the extractor makes them.
ScoreMissing(el) == ~el.value.present \/ ~el.value.hasAttr
ScoreInvalid(el) == ~ScoreMissing(el) /\ ~ParseF32(el.value.content).ok
CountMissing(el) == ~el.count.present \/ ~el.count.hasAttr
CountInvalid(el) == ~CountMissing(el) /\ ~ParseI32(el.count.content).ok

AtRatingRow == AtRow /\ NextRow.tds = 2 /\ NextRow.label = "Rating"

\* The row is processed without error and sets the rating to the two values.
RatingSet(el) ==
    /\ extracted' = NoExtract
    /\ itch_data'.rating = [score |-> ParseF32(el.value.content).val,
                             count |-> ParseI32(el.count.content).val]

\* The extraction returns error e with the row's field not set, and no record
\* is emitted for the item.
AbortedWith(e) ==
    /\ extracted' = ParseErr(e)
    /\ PushItem(<<>>, extracted', Item(1)) = <<>>
    /\ itch_data' = itch_data

\* C17 as stated: on a Rating row, both elements present and parsable set
\* the rating to {score, count}; either element (or its content attribute)
\* missing fails with MissingData; either value unparsable fails with
\* InvalidData; a failure aborts the extraction and no record is emitted.
C17_RatingAsStated ==
    /\ [][extracted = NoExtract]_vars
    /\ [][AtRatingRow =>
          LET el == NextRow.data
          IN /\ (~ScoreMissing(el) /\ ~ScoreInvalid(el) /\ ~CountMissing(el)
                    /\ ~CountInvalid(el)) => RatingSet(el)
             /\ (ScoreMissing(el) \/ CountMissing(el)) => AbortedWith("MissingData")
             /\ (ScoreInvalid(el) \/ CountInvalid(el)) => AbortedWith("InvalidData")]_vars

\* C17 amended: the checks are made in the order score element, score
\* value, count element, count value, and the first one that fails decides
\* the error: MissingData for a missing element or attribute, InvalidData for
\* an unparsable value; with no check failing the rating is {score, count}.
C17_RatingFirstFailure ==
    /\ [][extracted = NoExtract]_vars
    /\ [][AtRatingRow =>
          LET el == NextRow.data
          IN IF ScoreMissing(el) THEN AbortedWith("MissingData")
             ELSE IF ScoreInvalid(el) THEN AbortedWith("InvalidData")
             ELSE IF CountMissing(el) THEN AbortedWith("MissingData")
             ELSE IF CountInvalid(el) THEN AbortedWith("InvalidData")
             ELSE RatingSet(el)]_vars

C17_Witness ==
    /\ extractor = "info"
    /\ tr = 2
    /\ raw_html.rows[1] = RowStatus
    /\ raw_html.rows[2] = RowRatingBadScoreNoCount
    /\ extracted = ParseErr("InvalidData")

C17_WitnessSet ==
    /\ extractor = "info"
    /\ raw_html.rows = <<RowRatingNoCount, RowRating>>
    /\ tr = 1
    /\ extracted = ParseErr("MissingData")

\* The row carries a date label of the extractor that runs.
DateLabel(row) ==
    IF extractor = "info" THEN row.label = "Release date"
    ELSE row.label \in {"Updated", "Published"}

\* The data cell holds an abbr element whose title is a timestamp in the
\* format.
WellFormedDate(el) ==
    el.abbr.present /\ el.abbr.hasAttr /\ ParseFromStr(el.abbr.content).ok

\* C18: on a row with a date label (Release date in the detail extractor,
\* Updated or Published in the feed-metadata extractor) a data cell without
\* the abbr element fails the extraction with MissingData and a timestamp
\* that does not parse fails it with InvalidData; no extraction succeeds on a
\* document with a date row whose date is missing or malformed.
C18_DateRowsValidated ==
    /\ [][(AtRow /\ NextRow.tds = 2 /\ DateLabel(NextRow)) =>
            /\ ~NextRow.data.abbr.present => extracted' = ParseErr("MissingData")
            /\ (NextRow.data.abbr.present /\ NextRow.data.abbr.hasAttr
                   /\ ~ParseFromStr(NextRow.data.abbr.content).ok) =>
                  extracted' = ParseErr("InvalidData")]_vars
    /\ []((extracted # NoExtract /\ extracted.ok) =>
            \A i \in 1..Len(raw_html.rows) :
                (raw_html.rows[i].tds = 2 /\ DateLabel(raw_html.rows[i]))
                    => WellFormedDate(raw_html.rows[i].data))

\* The text of an anchor: its text nodes one after the other.
RECURSIVE AnchorText(_)
AnchorText(ts) ==
    IF ts = <<>> THEN <<>>
    ELSE [i \in 1..(Len(ts[1]) + Len(AnchorText(Tail(ts)))) |->
             IF i <= Len(ts[1]) THEN ts[1][i] ELSE AnchorText(Tail(ts))[i - Len(ts[1])]]

\* C19: on a Links row whose anchors all carry an href, the links field
\* becomes one {name: anchor text, url: href} entry per anchor, in document
\* order; if an anchor lacks its href the extraction returns MissingData and
\* no record, whatever the other anchors and the other rows are.
C19_LinksPerAnchor ==
    [][(AtRow /\ NextRow.tds = 2 /\ NextRow.label = "Links") =>
        LET as == NextRow.data.anchors
        IN IF \A i \in 1..Len(as) : as[i].hasHref
           THEN /\ extracted' = NoExtract
                /\ Len(itch_data'.links) = Len(as)
                /\ \A i \in 1..Len(as) :
                      /\ itch_data'.links[i].name = AnchorText(as[i].text)
                      /\ itch_data'.links[i].url = as[i].href
           ELSE AbortedWith("MissingData")]_vars

C19_Witness ==
    /\ extractor = "info"
    /\ raw_html.rows = <<RowLinks, RowLinksNoHref>>
    /\ tr = 2
    /\ Len(itch_data.links) = 3
    /\ itch_data.links[2] = [name |-> <<"T", " ", "w">>, url |-> <<"v">>]
    /\ itch_data.links[1] = itch_data.links[3]
    /\ extracted = ParseErr("MissingData")

\* The positions that bound the lines of s: before it, its newlines, after it.
Cuts(s) == {0, Len(s) + 1} \cup {i \in 1..Len(s) : s[i] = "\n"}

\* The k-th smallest element of a set of numbers.
Nth(S, k) == CHOOSE x \in S : Cardinality({y \in S : y < x}) = k - 1

\* The pieces of s between newlines, empty ones included.
LinesOf(s) ==
    [k \in 1..(Cardinality(Cuts(s)) - 1) |->
        SubSeq(s, Nth(Cuts(s), k) + 1, Nth(Cuts(s), k + 1) - 1)]

\* p without its leading and trailing whitespace.
Trimmed(p) ==
    LET ns == {i \in 1..Len(p) : ~IsSpace(p[i])}
    IN IF ns = {} THEN <<>>
       ELSE SubSeq(p, Nth(ns, 1), Nth(ns, Cardinality(ns)))

RECURSIVE PiecesOf(_)
\* The trimmed pieces of the text nodes, in document order.
PiecesOf(text) ==
    IF text = <<>> THEN <<>>
    ELSE [k \in 1..Len(LinesOf(Head(text))) |-> Trimmed(LinesOf(Head(text))[k])]
            \o PiecesOf(Tail(text))

Kept(x) == x # <<>> /\ x # <<",">>

ListFields ==
    {"platforms", "authors", "genres", "made_with", "tags", "languages", "inputs",
     "accessibility"}

\* C20: in parse_itch_game_page_data a row of a list field sets the field to
\* the pieces of the data cell's text nodes, split on newlines and trimmed,
\* without those that are empty or equal to ",": the others keep their order
\* and repeated values are all kept.
C20_ListFieldPieces ==
    [][(extractor = "info" /\ AtRow /\ NextRow.tds = 2
          /\ LabelField(NextRow.label) \in ListFields) =>
        /\ extracted' = NoExtract
        /\ itch_data'[LabelField(NextRow.label)] =
              SelectSeq(PiecesOf(NextRow.data.text), Kept)]_vars

C20_Witness ==
    /\ extractor = "info"
    /\ raw_html.rows = <<RowPlatforms, RowTag>>
    /\ extracted = ParseOk(itch_data)
    /\ itch_data.platforms = <<<<"W", "i", "n">>, <<"L", "x">>, <<"W", "i", "n">>>>
    /\ itch_data.tags = <<<<"a", ",">>, <<"a", " ", "b">>, <<",", ",">>>>

\* Every field of the record a has, with its value, is a field of r.
Carries(r, a) == \A f \in DOMAIN a : f \in DOMAIN r /\ r[f] = a[f]

UnionOf(r, item) ==
    /\ Carries(r, item)
    /\ Carries(r, ParseItchGamePageData(content[item.link]).data)

\* C21: combine_itch_rss_and_info_data returns the union of its inputs: each
\* record of a crawl that returned has every field of its feed item, the
\* guid included, and every field extracted from the item's page, each with
\* the value of the source field.
C21_CombineIsUnion ==
    crawlRes.tag = "ok" =>
        /\ orchestrator = "rss" =>
              \A i \in 1..Len(crawlRes.data) : UnionOf(crawlRes.data[i], GoodItems[i])
        /\ \A i \in 1..Len(crawlRes.data) :
              \E n \in ItemIds : UnionOf(crawlRes.data[i], Item(n))

\* What combine does carry: every field of the item but the guid.
C21_UnionButGuid ==
    crawlRes.tag = "ok" =>
        \A i \in 1..Len(crawlRes.data) :
           \E n \in ItemIds :
              /\ Carries(crawlRes.data[i], [f \in DOMAIN Item(n) \ {"guid"} |-> Item(n)[f]])
              /\ Carries(crawlRes.data[i], ParseItchGamePageData(content[Item(n).link]).data)
              /\ "guid" \notin DOMAIN crawlRes.data[i]

\* The last row of the document that stands for field f.
LastRowOf(f) == raw_html.rows[CHOOSE i \in RowsOf(f) : \A j \in RowsOf(f) : j <= i]

\* The value of field f extracted from the row alone, by a run that starts
\* from the default record.
ValueAlone(row, f) == ParseRow(DefaultTableData, row).data[f]

\* C22: in parse_itch_game_page_data a row that stands for a field sets the
\* field to the value extracted from that row alone, whatever earlier rows
\* of the same label or of a synonym put there; after a successful
\* extraction each field some row stands for holds the value of the last
\* such row alone.
C22_LastRowWins ==
    /\ [][(extractor = "info" /\ AtRow /\ NextRow.tds = 2
             /\ LabelField(NextRow.label) # "none"
             /\ ParseRow(DefaultTableData, NextRow).ok) =>
            /\ extracted' = NoExtract
            /\ itch_data'[LabelField(NextRow.label)] =
                  ValueAlone(NextRow, LabelField(NextRow.label))]_vars
    /\ []((extractor = "info" /\ extracted # NoExtract /\ extracted.ok) =>
            \A f \in Fields :
               RowsOf(f) # {} => extracted.data[f] = ValueAlone(LastRowOf(f), f))

C22_Witness ==
    /\ extractor = "info"
    /\ raw_html.rows = <<RowAuthors, RowAuthor>>
    /\ extracted = ParseOk(itch_data)
    /\ itch_data.authors = <<<<"C">>>>

C22_WitnessSameLabel ==
    /\ extractor = "info"
    /\ raw_html.rows = <<RowRating, RowRatingWhole>>
    /\ extracted = ParseOk(itch_data)
    /\ itch_data.rating = ParseRatingElement(RowRatingWhole.data).data
    /\ itch_data.rating # ParseRatingElement(RowRating.data).data

\* The attempt that ends with this step met a transport failure: send()
\* failed, or the body of a 200 response could not be read.
SendFailed == fpc = "inflight" /\ resp' = ErrResp
BodyReadFailed ==
    fpc = "inflight" /\ resp'.kind = "http" /\ resp'.status = StatusOK /\ ~resp'.readable

Retried ==
    /\ fpc' = "sleeping"
    /\ sleeps' = Append(sleeps, delay)
    /\ fres' = NoRes

\* C23: while retries < max_retries, an attempt of fetch_url that meets a
\* transport failure, be it a failed send or a failed read of the body of a
\* 200 response, is followed by a backoff sleep and not by a return.
C23_TransportFailuresRetried ==
    [][((SendFailed \/ BodyReadFailed) /\ retries < max_retries) => Retried]_vars

\* The part that holds: a failed send is retried while retries remain.
C23_SendFailuresRetried ==
    [][(SendFailed /\ retries < max_retries) => Retried]_vars

\* C24: each call of fetch_url that scrape_itch_rss_feed makes starts with
\* retries = 0, delay = 1 and no request sent, whatever the calls before it
\* used up: its first sleep lasts 1 second, it sleeps at most max_retries
\* times and sends at most max_retries + 1 requests.
C24_BudgetPerCall ==
    /\ [][(orchestrator = "rss" /\ calls' # calls) =>
            /\ calls' = Append(calls, url')
            /\ retries' = 0
            /\ delay' = 1
            /\ requests' = 0
            /\ sleeps' = <<>>]_vars
    /\ [](orchestrator = "rss" =>
            /\ requests <= max_retries + 1
            /\ retries <= max_retries
            /\ Len(sleeps) <= max_retries
            /\ sleeps # <<>> => sleeps[1] = 1)

C24_Witness ==
    /\ orchestrator = "rss"
    /\ retried
    /\ Len(calls) >= 2
    /\ max_retries >= 1
    /\ Len(sleeps) = max_retries
    /\ sleeps[1] = 1
    /\ requests = max_retries + 1

\* scrape_itch_rss_feed of itch_rss_scraper.rs is about to take the result of
\* a fetch_url call that returned an error.
FetchFailed ==
    orchestrator = "rss" /\ pc \in {"page", "item"} /\ fpc = "returned" /\ fres.tag = "err"

\* A fetch of the concurrent crawl fails with this step.
ConcFetchFails ==
    orchestrator = "itch" /\ NewlyFailed(c_page, c_page') \cup NewlyFailed(c_item, c_item') # {}

\* The step ends the crawl with an error that carries no record, main writes
\* nothing for it, and the step starts no fetch.
EndsWithNothing ==
    /\ pc' = "done"
    /\ crawlRes'.tag = "err"
    /\ crawlRes'.data = <<>>
    /\ MainOutput(crawlRes') = <<>>
    /\ calls' = calls
    /\ requests' = requests

\* C25: the step that takes a fetch error ends the crawl with the error
\* alone: whatever records were accumulated, none is in the result and main
\* writes no output; that step starts no fetch and no step follows it. Output
\* is written only for a crawl that returned its collection, and then whole.
C25_AllOrNothing ==
    /\ [][FetchFailed => EndsWithNothing]_vars
    /\ [][ConcFetchFails => EndsWithNothing]_vars
    /\ [](crawlRes.tag = "err" =>
            /\ crawlRes.data = <<>>
            /\ MainOutput(crawlRes) = <<>>
            /\ ~ENABLED Next)
    /\ [](MainOutput(crawlRes) # <<>> =>
            /\ crawlRes.tag = "ok"
            /\ MainOutput(crawlRes) = <<crawlRes.data>>
            /\ orchestrator = "rss" => crawlRes.data = itch_data_output)

C25_Witness ==
    /\ orchestrator = "rss"
    /\ pc = "done"
    /\ crawlRes.tag = "err"
    /\ Len(itch_data_output) = 2
    /\ MainOutput(crawlRes) = <<>>
    /\ url.kind = "page"

C25_WitnessConcurrent ==
    /\ orchestrator = "itch"
    /\ pc = "done"
    /\ crawlRes.tag = "err"
    /\ Len(Flatten(collected)) >= 1
    /\ MainOutput(crawlRes) = <<>>

====
